---------------------------- MODULE Spec2Model ----------------------------
(***************************************************************************)
(* A model of the starry-vdso crate: the seqlock-protected clock records   *)
(* of the vDSO data page, the clock updater and its frequency converter,   *)
(* the page preparer with its allocation guard, and the address            *)
(* randomizer.                                                             *)
(*                                                                         *)
(* TLC's integers are 32 bits wide, the program's are u32, u64, usize and  *)
(* u128.  A machine integer is therefore a tuple of 16-bit limbs, least    *)
(* significant first: 2 limbs for u32, 4 for u64 and usize (every target   *)
(* of the crate is a 64-bit architecture), 8 for u128.  Arithmetic on      *)
(* these tuples wraps, saturates or reports overflow exactly as the Rust   *)
(* operation it models.                                                    *)
(***************************************************************************)
EXTENDS Integers, Sequences, FiniteSets, TLC

(***************************************************************************)
(* Machine integers.                                                       *)
(***************************************************************************)
Limb == 2^16

\* A function with domain 1..k as a tuple of evaluated limbs.
Tup(f) == f \o <<>>

Zero(k) == Tup([i \in 1..k |-> 0])

\* The k-limb integer of a natural number below 2^31.
FromNat(n, k) ==
    Tup([i \in 1..k |-> IF i = 1 THEN n % Limb ELSE IF i = 2 THEN n \div Limb ELSE 0])

U32(n) == FromNat(n, 2)
U64(n) == FromNat(n, 4)

\* `x as uK`: truncation or zero extension to k limbs.
Resize(x, k) == Tup([i \in 1..k |-> IF i <= Len(x) THEN x[i] ELSE 0])

IsZero(x) == \A i \in 1..Len(x) : x[i] = 0

\* The natural number of an integer below 2^31.
ToNat(x) == x[1] + (IF Len(x) >= 2 THEN x[2] * Limb ELSE 0)

FitsNat(x) == /\ \A i \in 3..Len(x) : x[i] = 0
              /\ (Len(x) >= 2 => x[2] < 2^15)

RECURSIVE CmpFrom(_, _, _)
\* -1, 0 or 1 as x <, =, > y on limbs i..1 (x and y of one length).
CmpFrom(x, y, i) ==
    IF i = 0 THEN 0
    ELSE IF x[i] < y[i] THEN -1
    ELSE IF x[i] > y[i] THEN 1
    ELSE CmpFrom(x, y, i - 1)

Lt(x, y) == CmpFrom(x, y, Len(x)) < 0
Le(x, y) == CmpFrom(x, y, Len(x)) <= 0

RECURSIVE Carry(_, _, _)
\* The carry into limb i of x + y.
Carry(x, y, i) ==
    IF i = 1 THEN 0 ELSE (x[i-1] + y[i-1] + Carry(x, y, i - 1)) \div Limb

\* x.wrapping_add(y)
wrapping_add(x, y) ==
    Tup([i \in 1..Len(x) |-> (x[i] + y[i] + Carry(x, y, i)) % Limb])

\* Whether x + y overflows the type.
AddOverflows(x, y) == Carry(x, y, Len(x) + 1) = 1

RECURSIVE Borrow(_, _, _)
\* The borrow out of limb i - 1 of x - y.
Borrow(x, y, i) ==
    IF i = 1 THEN 0
    ELSE IF x[i-1] - y[i-1] - Borrow(x, y, i - 1) < 0 THEN 1 ELSE 0

\* x.wrapping_sub(y)
wrapping_sub(x, y) ==
    Tup([i \in 1..Len(x) |-> (x[i] - y[i] - Borrow(x, y, i) + Limb) % Limb])

\* x.saturating_sub(y)
saturating_sub(x, y) ==
    IF Lt(x, y) THEN Zero(Len(x)) ELSE wrapping_sub(x, y)

\* x << s, for a shift amount below the type's width; high bits are dropped.
Shl(x, s) ==
    LET q == s \div 16
        r == s % 16
        at(j) == IF j >= 1 THEN x[j] ELSE 0
    IN  Tup([i \in 1..Len(x) |->
            ((at(i - q) * 2^r) % Limb) + (at(i - q - 1) \div 2^(16 - r))])

RECURSIVE SuccFrom(_, _)
\* x + 1 from limb i on, limb by limb.
SuccFrom(x, i) ==
    IF i > Len(x) THEN x
    ELSE IF x[i] < Limb - 1 THEN [x EXCEPT ![i] = x[i] + 1]
    ELSE SuccFrom([x EXCEPT ![i] = 0], i + 1)

\* The integer after x, 0 after the largest.
Succ(x) == SuccFrom(x, 1)

\* A shift carried out in 32 bits: the bits above them are lost.
wrapping_shl_u32(x, s) == Resize(Shl(Resize(x, 2), s % 32), Len(x))

\* `x << s` with overflow checks off: the shift amount is taken modulo the
\* width.
wrapping_shl(x, s) == Shl(x, s % (16 * Len(x)))

\* Whether `x << s` overflows, which panics with overflow checks on.
ShlOverflows(x, s) == s >= 16 * Len(x)

\* x >> s
Shr(x, s) ==
    LET q == s \div 16
        r == s % 16
        at(j) == IF j <= Len(x) THEN x[j] ELSE 0
    IN  Tup([i \in 1..Len(x) |->
            (at(i + q) \div 2^r) + ((at(i + q + 1) % 2^r) * 2^(16 - r))])

RECURSIVE AndLimb(_, _, _)
\* Bitwise and of two limbs, on their low n bits.
AndLimb(a, b, n) ==
    IF n = 0 THEN 0
    ELSE (a % 2) * (b % 2) + 2 * AndLimb(a \div 2, b \div 2, n - 1)

\* x & y
BitAnd(x, y) == Tup([i \in 1..Len(x) |-> AndLimb(x[i], y[i], 16)])

\* !x
BitNot(x) == Tup([i \in 1..Len(x) |-> Limb - 1 - x[i]])

RECURSIVE MulSmallCarry(_, _, _)
\* The carry into limb i of x * m for m < 2^8.
MulSmallCarry(x, m, i) ==
    IF i = 1 THEN 0 ELSE (x[i-1] * m + MulSmallCarry(x, m, i - 1)) \div Limb

MulSmall(x, m) ==
    Tup([i \in 1..Len(x) |-> (x[i] * m + MulSmallCarry(x, m, i)) % Limb])

\* x * a for one limb a, wrapping.
MulLimb(x, a) ==
    wrapping_add(MulSmall(x, a % 256), Shl(MulSmall(x, a \div 256), 8))

RECURSIVE MulFrom(_, _, _)
MulFrom(x, y, i) ==
    IF i > Len(y) THEN Zero(Len(x))
    ELSE wrapping_add(Shl(MulLimb(x, y[i]), 16 * (i - 1)), MulFrom(x, y, i + 1))

\* x.wrapping_mul(y)
wrapping_mul(x, y) == MulFrom(x, y, 1)

\* Whether x * y overflows the type (debug builds panic, release builds wrap).
MulOverflows(x, y) ==
    LET k == Len(x)
        p == MulFrom(Resize(x, 2 * k), Resize(y, 2 * k), 1)
    IN  \E i \in (k + 1)..(2 * k) : p[i] # 0

\* 2 * x + b
ShlBit(x, b) ==
    Tup([i \in 1..Len(x) |->
        ((x[i] * 2) % Limb) + (IF i = 1 THEN b ELSE x[i-1] \div 2^15)])

RECURSIVE DivBits(_, _, _, _, _)
\* Long division, most significant bit first, of the low n bits of the limb a
\* by y, with quotient q and remainder r so far (r has one limb more than y).
\* (The test of q[1] only makes TLC evaluate q at every step instead of
\* building a chain of unevaluated shifts.)
DivBits(a, y, n, q, r) ==
    IF n = 0 \/ q[1] < 0 THEN <<q, r>>
    ELSE LET r2 == ShlBit(r, (a \div 2^(n - 1)) % 2)
         IN  IF Le(y, r2)
             THEN DivBits(a, y, n - 1, ShlBit(q, 1), wrapping_sub(r2, y))
             ELSE DivBits(a, y, n - 1, ShlBit(q, 0), r2)

RECURSIVE DivLimbs(_, _, _, _)
\* Long division of limbs i..1 of x by y, from quotient and remainder qr.
DivLimbs(x, y, i, qr) ==
    IF i = 0 \/ qr[1][1] < 0 THEN qr
    ELSE DivLimbs(x, y, i - 1, DivBits(x[i], y, 16, qr[1], qr[2]))

\* <<x / y, x % y>> for y # 0, x and y of one length.
DivMod(x, y) ==
    LET k  == Len(x)
        qr == DivLimbs(x, Resize(y, k + 1), k, <<Zero(k), Zero(k + 1)>>)
    IN  <<qr[1], Resize(qr[2], k)>>

U32_MAX == <<65535, 65535>>
U64_MAX == <<65535, 65535, 65535, 65535>>

(***************************************************************************)
(* The frequency converter.                                                *)
(***************************************************************************)
NANOS_PER_SEC == U64(1000000000)

RECURSIVE SftaccLoop(_, _)
\* The `while tmp != 0 { tmp >>= 1; sftacc -= 1; }` loop.
SftaccLoop(tmp, sftacc) ==
    IF IsZero(tmp) THEN sftacc ELSE SftaccLoop(Shr(tmp, 1), sftacc - 1)

\* sftacc: 32 less the bits of (maxsec * from) >> 32.
Sftacc(from, maxsec) ==
    SftaccLoop(Shr(wrapping_mul(Resize(maxsec, 4), from), 32), 32)

\* tmp128 without the rounding term: (to << sft) / from.
Tmp128_floor(from, to, sft) ==
    DivMod(Shl(Resize(to, 8), sft), Resize(from, 8))[1]

\* tmp128 = ((to << sft) + from / 2) / from, in u128.
Tmp128(from, to, sft) ==
    LET numer == wrapping_add(Shl(Resize(to, 8), sft), Shr(Resize(from, 8), 1))
    IN  DivMod(numer, Resize(from, 8))[1]

\* An acceptance test that passes every shift.
SftFits_any(tmp128, sftacc) == TRUE

\* The acceptance test of one shift.
SftFits(tmp128, sftacc) == sftacc <= 0 \/ IsZero(Shr(tmp128, sftacc))

\* The multiplier of an accepted shift: tmp128 clamped to u32.
ClampMult(tmp128) ==
    IF Lt(Resize(U32_MAX, 8), tmp128) THEN U32_MAX ELSE Resize(tmp128, 2)

\* The fallback result: maximum multiplier with shift 0.
Sentinel == <<U32_MAX, 0>>

RECURSIVE SftLoop_from2(_, _, _, _)
\* The loop over (2..=32).rev(): shift 1 is never tried.
SftLoop_from2(from, to, sftacc, sft) ==
    IF sft <= 1 THEN Sentinel
    ELSE LET tmp128 == Tmp128(from, to, sft)
         IN  IF SftFits(tmp128, sftacc)
             THEN <<ClampMult(tmp128), sft>>
             ELSE SftLoop_from2(from, to, sftacc, sft - 1)

RECURSIVE SftLoop(_, _, _, _)
\* `for sft in (1..=32).rev()`, from sft down.
SftLoop(from, to, sftacc, sft) ==
    IF sft = 0 THEN Sentinel
    ELSE LET tmp128 == Tmp128(from, to, sft)
         IN  IF SftFits(tmp128, sftacc)
             THEN <<ClampMult(tmp128), sft>>
             ELSE SftLoop(from, to, sftacc, sft - 1)

\* The call panics (division by zero at `numer / from`) exactly when from = 0.
CalcPanics(from) == IsZero(from)

\* clocks_calc_mult_shift(from, to, maxsec) for from # 0: <<mult, shift>>,
\* mult a u32 and shift a number in 0..32.
clocks_calc_mult_shift(from, to, maxsec) ==
    SftLoop(from, to, Sftacc(from, maxsec), 32)

(***************************************************************************)
(* Clock records.                                                          *)
(***************************************************************************)
VDSO_BASES == 16

\* config.rs: ClockMode::None is 0 on every architecture, and the counter of
\* the architecture (Csr, Tsc, Cntvct) is 1.
ClockMode_None == 0
ClockMode_Csr == 1
ClockMode_Tsc == 1
ClockMode_Cntvct == 1

VdsoTimestamp_new == [sec |-> U64(0), nsec |-> U64(0)]

\* VdsoClock::new().  shift is a u32 that only ever holds 0..32 (new, default
\* and the converter's results), so it is kept as a number.
VdsoClock_new ==
    [seq        |-> U32(0),
     clock_mode |-> 1,
     cycle_last |-> U64(0),
     mask       |-> U64_MAX,
     mult       |-> U32(0),
     shift      |-> 32,
     basetime   |-> [b \in 0..(VDSO_BASES - 1) |-> VdsoTimestamp_new],
     unused     |-> U32(0)]

\* VdsoClock::default(), from #[derive(Default)]: every field zero, so the
\* mode is ClockMode::None.
VdsoClock_default ==
    [seq        |-> U32(0),
     clock_mode |-> 0,
     cycle_last |-> U64(0),
     mask       |-> U64(0),
     mult       |-> U32(0),
     shift      |-> 0,
     basetime   |-> [b \in 0..(VDSO_BASES - 1) |-> VdsoTimestamp_new],
     unused     |-> U32(0)]

\* A begin that leaves seq as it is.
write_seqcount_begin_noinc(clk) == clk

\* A begin that stops at u32::MAX instead of wrapping.
write_seqcount_begin_sat(clk) ==
    [clk EXCEPT !.seq = IF clk.seq = U32_MAX THEN clk.seq
                        ELSE wrapping_add(clk.seq, U32(1))]

\* self.seq.load(Relaxed) then self.seq.store(seq.wrapping_add(1), Release),
\* with the SeqCst fence after the store: the new seq is visible before any
\* write that follows.
write_seqcount_begin(clk) == [clk EXCEPT !.seq = wrapping_add(clk.seq, U32(1))]

\* The SeqCst fence, then seq + 1: every write before is visible before the
\* new seq.
write_seqcount_end(clk) == [clk EXCEPT !.seq = wrapping_add(clk.seq, U32(1))]

IsOdd(x) == x[1] % 2 = 1
IsEven(x) == x[1] % 2 = 0

(***************************************************************************)
(* The samples of the model.                                               *)
(***************************************************************************)
\* seconds and nanoseconds as u64 nanoseconds
Ns(sec, nsec) == wrapping_add(wrapping_mul(U64(sec), NANOS_PER_SEC), U64(nsec))

\* The samples current_ticks(), wall_time_nanos(), monotonic_time_nanos()
\* of the successive calls of a routine: time and the counter go forward.
SampleSeq ==
    << [cycle_now |-> U64(1000),
        wall_ns   |-> Ns(1700000000, 250000000),
        mono_ns   |-> Ns(1, 500000000)],
       [cycle_now |-> U64(48001000),
        wall_ns   |-> Ns(1700000002, 1),
        mono_ns   |-> Ns(3, 7)],
       [cycle_now |-> U64(96001000),
        wall_ns   |-> Ns(1700000004, 250000001),
        mono_ns   |-> Ns(5, 7)],
       [cycle_now |-> U64(96001024),
        wall_ns   |-> Ns(1700000004, 250001001),
        mono_ns   |-> Ns(5, 1007)] >>

\* The sample of the call after n calls.
SampleAfter(n) == SampleSeq[(n % Len(SampleSeq)) + 1]

\* The arguments a direct caller passes: the samples above, and two later
\* times with the counter of the first (a counter that stood still, or one
\* that wrapped).
Samples ==
    {SampleSeq[1], SampleSeq[2]} \cup
    { [cycle_now |-> U64(1000),
       wall_ns   |-> Ns(1700000002, 1),
       mono_ns   |-> Ns(3, 7)],
      [cycle_now |-> U64(1000),
       wall_ns   |-> Ns(1700000004, 250000001),
       mono_ns   |-> Ns(5, 7)] }

\* The times of the samples.
SampleTimes ==
    UNION {{SampleSeq[i].wall_ns, SampleSeq[i].mono_ns} : i \in DOMAIN SampleSeq}
    \cup UNION {{s.wall_ns, s.mono_ns} : s \in Samples}

\* ns / NANOS_PER_SEC and ns % NANOS_PER_SEC of the times of the samples,
\* divided once.
DivModTable == [x \in SampleTimes |-> DivMod(x, NANOS_PER_SEC)] @@ <<>>

\* <<ns / NANOS_PER_SEC, ns % NANOS_PER_SEC>>
DivModNs(ns) ==
    IF ns \in DOMAIN DivModTable THEN DivModTable[ns]
    ELSE DivMod(ns, NANOS_PER_SEC)

(***************************************************************************)
(* The clock updater, update_vdso_clock, one memory access at a time.      *)
(* A call is the record l of its arguments and locals; ClockLoad is its    *)
(* reads and branch decision, ClockWrite one field write, NextPc the       *)
(* order of the writes.                                                    *)
(***************************************************************************)
\* prev_basetime_ns = basetime[1].sec * NANOS_PER_SEC + basetime[1].nsec,
\* wrapping.
PrevBasetimeNs(clk) ==
    wrapping_add(wrapping_mul(clk.basetime[1].sec, NANOS_PER_SEC),
                 clk.basetime[1].nsec)

\* A delta whose subtraction saturates.
DeltaCycles_saturating(cycle_now, prev_cycle, mask) ==
    BitAnd(saturating_sub(cycle_now, prev_cycle), mask)

\* delta_cycles = (cycle_now - prev_cycle) & mask, the subtraction wrapping.
DeltaCycles(cycle_now, prev_cycle, mask) ==
    BitAnd(wrapping_sub(cycle_now, prev_cycle), mask)

\* delta_ns = mono_ns.saturating_sub(prev_basetime_ns)
DeltaNs(mono_ns, prev_basetime_ns) == saturating_sub(mono_ns, prev_basetime_ns)

\* A test that forgets delta_cycles.
Recalibrates_nocycles(delta_cycles, delta_ns) == ~IsZero(delta_ns)

\* A test that recalibrates when either delta is nonzero.
Recalibrates_either(delta_cycles, delta_ns) ==
    ~IsZero(delta_cycles) \/ ~IsZero(delta_ns)

\* `if delta_cycles != 0 && delta_ns > 0`
Recalibrates(delta_cycles, delta_ns) ==
    ~IsZero(delta_cycles) /\ ~IsZero(delta_ns)

\* A test that takes every candidate for the sentinel.
IsSentinel_always(mult_shift) == TRUE

\* `!(mult == u32::MAX && shift == 0)`
IsSentinel(mult_shift) == mult_shift[1] = U32_MAX /\ mult_shift[2] = 0

\* The branch a call takes: "none" (ClockMode::None), "first" (prev_cycle
\* == 0), "resync" (a candidate other than the sentinel), "recal" (the
\* sentinel, both deltas nonzero), "skip" (the sentinel, a zero delta).
Branch(clk, cycle_now, mono_ns, mult_shift) ==
    IF clk.clock_mode = ClockMode_None THEN "none"
    ELSE IF IsZero(clk.cycle_last) THEN "first"
    ELSE IF ~IsSentinel(mult_shift) THEN "resync"
    ELSE IF Recalibrates(DeltaCycles(cycle_now, clk.cycle_last, clk.mask),
                         DeltaNs(mono_ns, PrevBasetimeNs(clk)))
         THEN "recal"
         ELSE "skip"

\* The locals of a call after its reads: the arguments, the branch, and the
\* (mult, shift) the branch writes.  In the "recal" branch the converter is
\* called with from = delta_cycles; panics tells whether that call divides
\* by zero.
ClockLoad(clk, cycle_now, wall_ns, mono_ns, mult_shift) ==
    LET branch == Branch(clk, cycle_now, mono_ns, mult_shift)
        dc     == DeltaCycles(cycle_now, clk.cycle_last, clk.mask)
        dn     == DeltaNs(mono_ns, PrevBasetimeNs(clk))
        panics == branch = "recal" /\ CalcPanics(dc)
        ms     == IF branch = "recal" /\ ~panics
                  THEN clocks_calc_mult_shift(dc, dn, U32(1))
                  ELSE mult_shift
    IN  [cycle_now |-> cycle_now, wall_ns |-> wall_ns, mono_ns |-> mono_ns,
         branch |-> branch, panics |-> panics,
         delta_cycles |-> IF branch \in {"recal", "skip"} THEN dc ELSE U64(0),
         delta_ns     |-> IF branch \in {"recal", "skip"} THEN dn ELSE U64(0),
         mult |-> IF branch = "none" THEN U32(0) ELSE ms[1],
         shift |-> ms[2]]

\* Field writes whose wall time is shifted by the shift the call computed,
\* not by the one the record holds.
ClockWrite_callshift(pc, clk, l) ==
    CASE pc = "mult"   -> [clk EXCEPT !.mult = l.mult]
      [] pc = "shift"  -> [clk EXCEPT !.shift = l.shift]
      [] pc = "b1sec"  ->
           [clk EXCEPT !.basetime[1].sec = DivModNs(l.mono_ns)[1]]
      [] pc = "b1nsec" ->
           [clk EXCEPT !.basetime[1].nsec =
               IF l.branch = "none"
               THEN DivModNs(l.mono_ns)[2]
               ELSE wrapping_shl(DivModNs(l.mono_ns)[2], l.shift)]
      [] pc = "cycle"  ->
           [clk EXCEPT !.cycle_last =
               IF l.branch = "none" THEN U64(0) ELSE l.cycle_now]
      [] pc = "b0sec"  ->
           [clk EXCEPT !.basetime[0].sec = DivModNs(l.wall_ns)[1]]
      [] pc = "b0nsec" ->
           [clk EXCEPT !.basetime[0].nsec =
               wrapping_shl(DivModNs(l.wall_ns)[2], l.shift)]
      [] pc = "b7sec"  -> [clk EXCEPT !.basetime[7].sec = clk.basetime[1].sec]
      [] pc = "b7nsec" -> [clk EXCEPT !.basetime[7].nsec = clk.basetime[1].nsec]

\* Field writes whose copy of slot 1 lands in slot 8.
ClockWrite_slot8(pc, clk, l) ==
    CASE pc = "mult"   -> [clk EXCEPT !.mult = l.mult]
      [] pc = "shift"  -> [clk EXCEPT !.shift = l.shift]
      [] pc = "b1sec"  ->
           [clk EXCEPT !.basetime[1].sec = DivModNs(l.mono_ns)[1]]
      [] pc = "b1nsec" ->
           [clk EXCEPT !.basetime[1].nsec =
               IF l.branch = "none"
               THEN DivModNs(l.mono_ns)[2]
               ELSE wrapping_shl(DivModNs(l.mono_ns)[2], l.shift)]
      [] pc = "cycle"  ->
           [clk EXCEPT !.cycle_last =
               IF l.branch = "none" THEN U64(0) ELSE l.cycle_now]
      [] pc = "b0sec"  ->
           [clk EXCEPT !.basetime[0].sec = DivModNs(l.wall_ns)[1]]
      [] pc = "b0nsec" ->
           [clk EXCEPT !.basetime[0].nsec =
               wrapping_shl(DivModNs(l.wall_ns)[2], clk.shift)]
      [] pc = "b7sec"  -> [clk EXCEPT !.basetime[8].sec = clk.basetime[1].sec]
      [] pc = "b7nsec" -> [clk EXCEPT !.basetime[8].nsec = clk.basetime[1].nsec]

\* The record after the field write at pc.
ClockWrite(pc, clk, l) ==
    CASE pc = "mult"   -> [clk EXCEPT !.mult = l.mult]
      [] pc = "shift"  -> [clk EXCEPT !.shift = l.shift]
      [] pc = "b1sec"  ->
           [clk EXCEPT !.basetime[1].sec = DivModNs(l.mono_ns)[1]]
      [] pc = "b1nsec" ->
           [clk EXCEPT !.basetime[1].nsec =
               IF l.branch = "none"
               THEN DivModNs(l.mono_ns)[2]
               ELSE wrapping_shl(DivModNs(l.mono_ns)[2], l.shift)]
      [] pc = "cycle"  ->
           [clk EXCEPT !.cycle_last =
               IF l.branch = "none" THEN U64(0) ELSE l.cycle_now]
      [] pc = "b0sec"  ->
           [clk EXCEPT !.basetime[0].sec = DivModNs(l.wall_ns)[1]]
      [] pc = "b0nsec" ->
           [clk EXCEPT !.basetime[0].nsec =
               wrapping_shl(DivModNs(l.wall_ns)[2], clk.shift)]
      [] pc = "b7sec"  -> [clk EXCEPT !.basetime[7].sec = clk.basetime[1].sec]
      [] pc = "b7nsec" -> [clk EXCEPT !.basetime[7].nsec = clk.basetime[1].nsec]

\* Whether the field write at pc shifts by the width or more: a panic in a
\* build with overflow checks.
WriteOverflows(pc, clk, l) ==
    \/ pc = "b1nsec" /\ l.branch # "none"
                     /\ ShlOverflows(DivModNs(l.mono_ns)[2], l.shift)
    \/ pc = "b0nsec" /\ ShlOverflows(DivModNs(l.wall_ns)[2], clk.shift)

\* The field writes of update_vdso_clock.
UpdatePcs ==
    {"mult", "shift", "b1sec", "b1nsec", "cycle", "b0sec", "b0nsec", "b7sec",
     "b7nsec"}

\* An order of writes that leaves out the store of cycle_last.
NextPc_nocycle(pc, l) ==
    CASE pc = "load"   -> IF l.branch = "skip" THEN "b0sec" ELSE "mult"
      [] pc = "mult"   -> IF l.branch = "none" THEN "b1sec" ELSE "shift"
      [] pc = "shift"  -> "b1sec"
      [] pc = "b1sec"  -> "b1nsec"
      [] pc = "b1nsec" -> "b0sec"
      [] pc = "cycle"  -> "b0sec"
      [] pc = "b0sec"  -> "b0nsec"
      [] pc = "b0nsec" -> "b7sec"
      [] pc = "b7sec"  -> "b7nsec"
      [] pc = "b7nsec" -> "ret"

\* The write after the one at pc ("load": the first one), "ret" after the
\* last.
NextPc(pc, l) ==
    CASE pc = "load"   -> IF l.branch = "skip" THEN "b0sec" ELSE "mult"
      [] pc = "mult"   -> IF l.branch = "none" THEN "b1sec" ELSE "shift"
      [] pc = "shift"  -> "b1sec"
      [] pc = "b1sec"  -> "b1nsec"
      [] pc = "b1nsec" -> "cycle"
      [] pc = "cycle"  -> "b0sec"
      [] pc = "b0sec"  -> "b0nsec"
      [] pc = "b0nsec" -> "b7sec"
      [] pc = "b7sec"  -> "b7nsec"
      [] pc = "b7nsec" -> "ret"

RECURSIVE RunWrites(_, _, _)
\* The record after the writes from pc on.
RunWrites(pc, clk, l) ==
    IF pc = "ret" THEN clk
    ELSE RunWrites(NextPc(pc, l), ClockWrite(pc, clk, l), l)

\* update_vdso_clock(clk, cycle_now, wall_ns, mono_ns, mult_shift) as a whole,
\* for a call that does not panic (with overflow checks off when it shifts
\* by 64 or more).
update_vdso_clock(clk, cycle_now, wall_ns, mono_ns, mult_shift) ==
    LET l == ClockLoad(clk, cycle_now, wall_ns, mono_ns, mult_shift)
    IN  RunWrites(NextPc("load", l), clk, l)

(***************************************************************************)
(* Page preparation: prepare_vdso_pages, the allocator it calls and the    *)
(* allocation guard.  usize is 64 bits.  The heap is a row of HeapPages     *)
(* pages from HeapBase; an allocation is a run of pages with its bytes.    *)
(***************************************************************************)
PAGE_SIZE_4K == 4096

\* isize::MAX
isize_MAX == <<Limb - 1, Limb - 1, Limb - 1, (Limb \div 2) - 1>>

\* The heap of the model.
HeapPages == 3
HeapBase == <<0, 34816, 0, 0>>

\* The offset of the linear mapping: virt_to_phys of the platform subtracts
\* it.
PhysVirtOffset == <<0, 16384, 0, 0>>
virt_to_phys(vaddr) == wrapping_sub(vaddr, PhysVirtOffset)

\* The byte of the kernel image at an address.
OrigByte(addr) == 1 + ((addr[1] + 3 * addr[2]) % 255)

\* The regions of the model: [kstart, kstart + len) with kstart aligned, 100
\* or 4095 into its page, and len from 0 to isize::MAX.
KernelBase == <<0, 32800, 0, 0>>
Region(kstart, len) == [kstart |-> kstart, kend |-> wrapping_add(kstart, len)]
Regions ==
    {Region(KernelBase, U64(10000)),
     Region(KernelBase, U64(0)),
     Region(KernelBase, isize_MAX),
     Region(wrapping_add(KernelBase, U64(100)), U64(5000)),
     Region(wrapping_add(KernelBase, U64(100)), U64(3996)),
     Region(wrapping_add(KernelBase, U64(100)), U64(0)),
     Region(wrapping_add(KernelBase, U64(4095)), U64(2)),
     Region(wrapping_add(KernelBase, U64(100)), isize_MAX),
     Region(wrapping_add(KernelBase, U64(100)), <<0, 0, 0, 16384>>)}

\* The bytes of the regions that are less than 2^16 bytes long, keyed by
\* start and length.
Image ==
    [key \in {<<reg.kstart, ToNat(wrapping_sub(reg.kend, reg.kstart))>> :
                 reg \in {r \in Regions :
                             Lt(wrapping_sub(r.kend, r.kstart), U64(Limb))}}
        |-> Tup([i \in 1..key[2] |->
                    OrigByte(wrapping_add(key[1], U64(i - 1)))])] @@ <<>>

\* The n bytes at src.
ReadBytes(src, n) == Image[<<src, n>>]

\* x.div_ceil(y)
div_ceil(x, y) ==
    LET qr == DivMod(x, y)
    IN  IF IsZero(qr[2]) THEN qr[1] ELSE Succ(qr[1])

\* Layout::from_size_align(size, align).is_ok(), align a power of two: the
\* size rounded up to align does not exceed isize::MAX.
LayoutOk(size, align) == Le(size, wrapping_sub(isize_MAX, U64(align - 1)))

\* No allocation, no allocation made, and a null pointer.
None == <<>>
NoHeap == [allocs |-> <<>>, bad |-> FALSE]
Null == U64(0)

\* The pages of the heap that live allocations hold.
UsedPages(hp) ==
    UNION {{hp.allocs[k].page + j : j \in 0..(hp.allocs[k].pages - 1)} :
              k \in {n \in DOMAIN hp.allocs : hp.allocs[n].live}}

\* The first pages where a run of n pages is free, or -1.
FreeRun(hp, n) ==
    LET fits == {q \in 0..(HeapPages - n) :
                    \A j \in 0..(n - 1) : q + j \notin UsedPages(hp)}
    IN  IF fits = {} THEN -1 ELSE CHOOSE q \in fits : \A r \in fits : q <= r

\* alloc_zeroed(layout): <<the pointer, the heap after>>.  The allocator
\* returns null when it has no room, and it may return null when it has
\* (grant tells).
alloc_zeroed(hp, size, grant) ==
    LET n == div_ceil(size, U64(PAGE_SIZE_4K))
        q == IF FitsNat(n) /\ ToNat(n) \in 1..HeapPages
             THEN FreeRun(hp, ToNat(n)) ELSE -1
    IN  IF ~grant \/ q < 0 THEN <<Null, hp>>
        ELSE <<wrapping_add(HeapBase, U64(q * PAGE_SIZE_4K)),
               [hp EXCEPT !.allocs = Append(@,
                   [page  |-> q,
                    pages |-> ToNat(n),
                    bytes |-> Tup([i \in 1..(ToNat(n) * PAGE_SIZE_4K) |-> 0]),
                    live  |-> TRUE,
                    frees |-> 0])]>>

\* The allocation at an address: the last one made there (0 if none).
AllocAt(hp, vaddr) ==
    LET at == {k \in DOMAIN hp.allocs :
                 wrapping_add(HeapBase, U64(hp.allocs[k].page * PAGE_SIZE_4K)) = vaddr}
    IN  IF at = {} THEN 0 ELSE CHOOSE k \in at : \A j \in at : j <= k

\* dealloc(ptr, layout): the heap after.  Freeing what is not live, or with
\* another layout than it was allocated with, is undefined behaviour (bad).
dealloc(hp, vaddr, size) ==
    LET k == AllocAt(hp, vaddr)
    IN  IF k = 0 THEN [hp EXCEPT !.bad = TRUE]
        ELSE [hp EXCEPT !.allocs[k].frees = @ + 1,
                        !.allocs[k].live = FALSE,
                        !.bad = \/ hp.bad
                                \/ ~hp.allocs[k].live
                                \/ size # U64(hp.allocs[k].pages * PAGE_SIZE_4K)]

\* A copy to the start of the allocation.
copy_nonoverlapping_nooff(bytes, src, off, n) ==
    ReadBytes(src, n) \o SubSeq(bytes, n + 1, Len(bytes))

\* copy_nonoverlapping(src, dest, n) into an allocation's bytes, dest at
\* offset off of it.
copy_nonoverlapping(bytes, src, off, n) ==
    SubSeq(bytes, 1, off) \o ReadBytes(src, n)
                          \o SubSeq(bytes, off + n + 1, Len(bytes))

\* The results of prepare_vdso_pages.
Panic(hp) == [kind |-> "panic", heap |-> hp]
Err(hp) == [kind |-> "err", err |-> "InvalidExecutable", heap |-> hp]
Ok(paddr, ptr, len, size, off, alloc, hp) ==
    [kind |-> "ok", paddr |-> paddr, bytes |-> [ptr |-> ptr, len |-> len],
     size |-> size, off |-> off, alloc |-> alloc, heap |-> hp]

\* The branch of an aligned region: the region itself, no allocation.
PrepareAligned(vdso_kstart, vdso_kend, orig_vdso_len, checks, hp) ==
    LET page_m1 == U64(PAGE_SIZE_4K - 1)
        vdso_size == BitAnd(wrapping_add(orig_vdso_len, page_m1), BitNot(page_m1))
    IN  IF checks /\ AddOverflows(orig_vdso_len, page_m1) THEN Panic(hp)
        ELSE Ok(virt_to_phys(vdso_kstart), vdso_kstart, orig_vdso_len,
                vdso_size, U64(0), None, hp)

\* A misaligned branch that takes the allocation for granted.
PrepareCopy_unwrap(vdso_kstart, orig_vdso_len, orig_page_off, checks, hp, grant) ==
    LET total_size == wrapping_add(orig_vdso_len, orig_page_off)
        num_pages  == div_ceil(total_size, U64(PAGE_SIZE_4K))
        vdso_size  == wrapping_mul(num_pages, U64(PAGE_SIZE_4K))
        got        == alloc_zeroed(hp, vdso_size, grant)
        k          == Len(got[2].allocs)
    IN  IF got[1] = Null \/ ~LayoutOk(vdso_size, PAGE_SIZE_4K) THEN Panic(hp)
        ELSE Ok(virt_to_phys(got[1]),
                wrapping_add(got[1], orig_page_off), orig_vdso_len,
                vdso_size, orig_page_off, <<got[1], num_pages>>,
                [got[2] EXCEPT !.allocs[k].bytes =
                    copy_nonoverlapping(@, vdso_kstart, ToNat(orig_page_off),
                                        ToNat(orig_vdso_len))])

\* The branch of a misaligned region: a zeroed allocation of whole pages
\* and the region copied into it at its offset in its page.
PrepareCopy(vdso_kstart, orig_vdso_len, orig_page_off, checks, hp, grant) ==
    LET total_size == wrapping_add(orig_vdso_len, orig_page_off)
        num_pages  == div_ceil(total_size, U64(PAGE_SIZE_4K))
        vdso_size  == wrapping_mul(num_pages, U64(PAGE_SIZE_4K))
        got        == alloc_zeroed(hp, vdso_size, grant)
        k          == Len(got[2].allocs)
    IN  IF checks /\ \/ AddOverflows(orig_vdso_len, orig_page_off)
                     \/ MulOverflows(num_pages, U64(PAGE_SIZE_4K))
        THEN Panic(hp)
        ELSE IF ~LayoutOk(vdso_size, PAGE_SIZE_4K) THEN Err(hp)
        ELSE IF got[1] = Null THEN Err(hp)
        ELSE Ok(virt_to_phys(got[1]),
                wrapping_add(got[1], orig_page_off), orig_vdso_len,
                vdso_size, orig_page_off, <<got[1], num_pages>>,
                [got[2] EXCEPT !.allocs[k].bytes =
                    copy_nonoverlapping(@, vdso_kstart, ToNat(orig_page_off),
                                        ToNat(orig_vdso_len))])

\* A preparation that copies whatever the offset.
prepare_vdso_pages_copy(vdso_kstart, vdso_kend, checks, hp, grant) ==
    LET orig_vdso_len == wrapping_sub(vdso_kend, vdso_kstart)
        orig_page_off == BitAnd(vdso_kstart, U64(PAGE_SIZE_4K - 1))
    IN  PrepareCopy(vdso_kstart, orig_vdso_len, orig_page_off, checks, hp, grant)

\* prepare_vdso_pages(vdso_kstart, vdso_kend) on heap hp.  checks: the crate
\* is built with overflow checks, so that an overflowing operation panics
\* instead of wrapping.
prepare_vdso_pages(vdso_kstart, vdso_kend, checks, hp, grant) ==
    LET orig_vdso_len == wrapping_sub(vdso_kend, vdso_kstart)
        orig_page_off == BitAnd(vdso_kstart, U64(PAGE_SIZE_4K - 1))
    IN  IF checks /\ Lt(vdso_kend, vdso_kstart) THEN Panic(hp)
        ELSE IF IsZero(orig_page_off)
        THEN PrepareAligned(vdso_kstart, vdso_kend, orig_vdso_len, checks, hp)
        ELSE PrepareCopy(vdso_kstart, orig_vdso_len, orig_page_off, checks, hp,
                         grant)

\* VdsoAllocGuard::new(alloc)
VdsoAllocGuard_new(alloc) == [alloc |-> alloc]

\* A disarm that keeps the allocation.
disarm_keep(guard) == guard

\* VdsoAllocGuard::disarm(&mut self)
disarm(guard) == [guard EXCEPT !.alloc = None]

\* Drop for VdsoAllocGuard: the heap after, or a panic.
drop(guard, checks, hp) ==
    IF guard.alloc = None THEN [panics |-> FALSE, heap |-> hp]
    ELSE LET vaddr == guard.alloc[1]
             pages == guard.alloc[2]
             size  == wrapping_mul(pages, U64(PAGE_SIZE_4K))
         IN  IF checks /\ MulOverflows(pages, U64(PAGE_SIZE_4K))
             THEN [panics |-> TRUE, heap |-> hp]
             ELSE IF LayoutOk(size, PAGE_SIZE_4K)
             THEN [panics |-> FALSE, heap |-> dealloc(hp, vaddr, size)]
             ELSE [panics |-> FALSE, heap |-> hp]

\* The constants of calculate_vdso_aslr_addr.
VDSO_USER_ADDR_BASE == 2130706432
VDSO_ASLR_PAGES == 256

\* The values rng.next_u64() returns in the model.  Pcg64Mcg is of another
\* crate: whatever the seed (monotonic_time_nanos() ^ vdso_kstart
\* .rotate_left(13) ^ vdso_kend.rotate_left(37)), it returns some u64.
Draws ==
    {U64(0), U64(1), U64(255), U64(256), U64(257), U64(4660),
     <<4660, 22136, 39612, 57072>>, <<0, 0, 0, 32768>>, U64_MAX}

\* An address computation that takes one page too many for its window.
calculate_vdso_aslr_addr_window(next_u64, vdso_page_offset) ==
    LET page_off  == DivMod(next_u64, U64(VDSO_ASLR_PAGES + 1))[2]
        base_addr == wrapping_add(U64(VDSO_USER_ADDR_BASE),
                                  wrapping_mul(page_off, U64(PAGE_SIZE_4K)))
    IN  <<base_addr, wrapping_add(base_addr, vdso_page_offset)>>

\* An address computation that leaves the offset out.
calculate_vdso_aslr_addr_nooff(next_u64, vdso_page_offset) ==
    LET page_off  == DivMod(next_u64, U64(VDSO_ASLR_PAGES))[2]
        base_addr == wrapping_add(U64(VDSO_USER_ADDR_BASE),
                                  wrapping_mul(page_off, U64(PAGE_SIZE_4K)))
    IN  <<base_addr, base_addr>>

\* calculate_vdso_aslr_addr(vdso_kstart, vdso_kend, vdso_page_offset) with
\* next_u64 drawn: <<base_addr, vdso_addr>>.  page_off < 256, so neither the
\* product nor the sum overflows.
calculate_vdso_aslr_addr(next_u64, vdso_page_offset) ==
    LET page_off  == DivMod(next_u64, U64(VDSO_ASLR_PAGES))[2]
        base_addr == wrapping_add(U64(VDSO_USER_ADDR_BASE),
                                  wrapping_mul(page_off, U64(PAGE_SIZE_4K)))
        vdso_addr == IF ~IsZero(vdso_page_offset)
                     THEN wrapping_add(base_addr, vdso_page_offset)
                     ELSE base_addr
    IN  <<base_addr, vdso_addr>>

(***************************************************************************)
(* The data page and its writer.                                           *)
(***************************************************************************)
\* VdsoData::new(): two clock records and the time zone and resolution
\* words (clocks[1], clocks[2] are clock_page0, clock_page1 on aarch64).
VdsoData_new ==
    [clocks         |-> <<VdsoClock_new, VdsoClock_new>>,
     tz_minuteswest |-> 0,
     tz_dsttime     |-> 0,
     hrtimer_res    |-> 1]

\* The page update routines: update_vdso (riscv64 and loongarch64),
\* update_vdso_x86, update_vdso_aarch.  "direct" is a caller of the public
\* write_seqcount_begin, update_vdso_clock, write_seqcount_end on one record.
PageArchs == {"riscv64", "x86_64", "aarch64"}

\* The records a routine updates, in order.
NumClocks(a) == IF a = "direct" THEN 1 ELSE 2

\* A routine that stamps the counter identity before it begins.
ClockProgram_stampfirst(a) ==
    IF a \in {"x86_64", "aarch64"}
    THEN <<"stamp_mode", "stamp_mask", "begin", "update", "end">>
    ELSE <<"begin", "update", "end">>

\* What a routine does to one record, in order: "update" is the call of
\* update_vdso_clock.
ClockProgram(a) ==
    IF a \in {"x86_64", "aarch64"}
    THEN <<"begin", "stamp_mode", "stamp_mask", "update", "end">>
    ELSE <<"begin", "update", "end">>

\* A stamp that marks the record as having no counter.
ArchClockMode_none(a) == ClockMode_None

\* The counter identity update_vdso_x86 and update_vdso_aarch stamp.
ArchClockMode(a) == IF a = "x86_64" THEN ClockMode_Tsc ELSE ClockMode_Cntvct

\* A routine that reads the counter again for each record.
ArgsFor_resample(i, args) ==
    [args EXCEPT !.cycle_now = wrapping_add(@, U64(i - 1))]

\* The arguments of update_vdso_clock for record i: the samples of the call.
ArgsFor(i, args) == args

VARIABLES
    arch,      \* the routine that writes the page
    data,      \* VDSO_DATA
    w,         \* the writer: its place in the routine and its locals
    updates,   \* calls of the routine so far
    committed, \* history: the records each completed write section left
    calls,     \* history: the begin and end calls on each record, as u64
    readers,   \* the readers of the page
    prep,      \* the caller of prepare_vdso_pages and its guard
    heap,      \* the allocator's heap
    conv       \* a caller of clocks_calc_mult_shift

\* What the writer leaves alone.
notWriter == <<readers, prep, heap, conv>>
\* What a step other than a begin or an end leaves alone.
notSeq == <<committed, calls>>
vars ==
    <<arch, data, w, updates, committed, calls, readers, prep, heap, conv>>

\* Bounds of the model.
MaxUpdates == 2
MaxCalls == 5
MaxPrepares == 2

\* nanos_to_ticks(NANOS_PER_SEC): the timer frequency, 0 for a platform that
\* reports none.
Freqs == {U64(0), U64(24000000)}

\* clocks_calc_mult_shift(ticks_per_sec, NANOS_PER_SEC, 10) of each frequency.
MultShiftOf ==
    [f \in Freqs \ {U64(0)} |-> clocks_calc_mult_shift(f, NANOS_PER_SEC, U32(10))]
    @@ <<>>

\* The candidates a direct caller passes, as the converter returns them: a
\* pair it computed, or the sentinel.
Candidates == {MultShiftOf[f] : f \in Freqs \ {U64(0)}} \cup {Sentinel}

NoArgs == [cycle_now |-> U64(0), wall_ns |-> U64(0), mono_ns |-> U64(0),
           mult_shift |-> Sentinel]

NoLocals == [cycle_now |-> U64(0), wall_ns |-> U64(0), mono_ns |-> U64(0),
             branch |-> "", panics |-> FALSE, delta_cycles |-> U64(0),
             delta_ns |-> U64(0), mult |-> U32(0), shift |-> 0]

\* The writer between calls.  pre and wrote are history: the record as the
\* call of update_vdso_clock found it, and the field the last step wrote.
\* fault is what a writer that panicked ran into.  again and page are history
\* too: whether the invocation repeats the samples of the one before, and the
\* page as it found it.
WriterIdle ==
    [pc |-> "idle", clk |-> 1, ip |-> 1, args |-> NoArgs, l |-> NoLocals,
     pre |-> VdsoClock_new, wrote |-> "", fault |-> "", again |-> FALSE,
     page |-> VdsoData_new]

\* The first step of a stage.
PcOf(stage) == IF stage = "update" THEN "load" ELSE stage

\* The writer after the last step of stage ip of record clk: the next stage,
\* the next record, or the return of the routine.
Advance(a, v) ==
    IF v.ip < Len(ClockProgram(a))
    THEN [v EXCEPT !.ip = v.ip + 1, !.pc = PcOf(ClockProgram(a)[v.ip + 1])]
    ELSE IF v.clk < NumClocks(a)
    THEN [v EXCEPT !.clk = v.clk + 1, !.ip = 1, !.pc = PcOf(ClockProgram(a)[1])]
    ELSE [WriterIdle EXCEPT !.again = v.again, !.page = v.page]

\* The writer of routine a entering with args.
Enter(a, args) ==
    [WriterIdle EXCEPT !.pc = PcOf(ClockProgram(a)[1]), !.args = args]

\* A page update starts: the samples and the candidate are taken once,
\* before the first record is touched.  With a zero frequency the converter
\* divides by zero and the routine panics there.
UpdateSample ==
    /\ arch \in PageArchs
    /\ w.pc = "idle"
    /\ updates < MaxUpdates
    /\ \E s \in {SampleAfter(updates)}, tps \in Freqs :
          w' = IF CalcPanics(tps)
               THEN [WriterIdle EXCEPT !.pc = "panicked",
                                       !.fault = "division by zero"]
               ELSE Enter(arch, [cycle_now  |-> s.cycle_now,
                                 wall_ns    |-> s.wall_ns,
                                 mono_ns    |-> s.mono_ns,
                                 mult_shift |-> MultShiftOf[tps]])
    /\ updates' = updates + 1
    /\ UNCHANGED <<arch, data, notSeq, notWriter>>

\* init_vdso_data() is invoked a second time while current_ticks(),
\* wall_time_nanos(), monotonic_time_nanos() and the frequency are what they
\* were for the first invocation.
InitAgain ==
    /\ arch \in PageArchs
    /\ w.pc = "idle"
    /\ updates = 1
    /\ \E s \in {SampleAfter(0)}, tps \in Freqs \ {U64(0)} :
          w' = [Enter(arch, [cycle_now  |-> s.cycle_now,
                             wall_ns    |-> s.wall_ns,
                             mono_ns    |-> s.mono_ns,
                             mult_shift |-> MultShiftOf[tps]])
                   EXCEPT !.again = TRUE, !.page = data]
    /\ updates' = updates + 1
    /\ UNCHANGED <<arch, data, notSeq, notWriter>>

\* A direct caller starts an update of its record with arguments of its own.
DirectCall ==
    /\ arch = "direct"
    /\ w.pc = "idle"
    /\ updates < MaxUpdates
    /\ \E s \in Samples, ms \in Candidates :
          w' = Enter(arch, [cycle_now  |-> s.cycle_now,
                            wall_ns    |-> s.wall_ns,
                            mono_ns    |-> s.mono_ns,
                            mult_shift |-> ms])
    /\ updates' = updates + 1
    /\ UNCHANGED <<arch, data, notSeq, notWriter>>

\* clk.write_seqcount_begin()
SeqBegin ==
    /\ w.pc = "begin"
    /\ data' = [data EXCEPT !.clocks[w.clk] = write_seqcount_begin(@)]
    /\ w' = [Advance(arch, w) EXCEPT !.wrote = ""]
    /\ calls' = [calls EXCEPT ![w.clk] = Succ(@)]
    /\ UNCHANGED <<arch, updates, committed, notWriter>>

\* clk.clock_mode = ClockMode::Tsc as i32 (Cntvct on aarch64)
StampMode ==
    /\ w.pc = "stamp_mode"
    /\ data' = [data EXCEPT !.clocks[w.clk].clock_mode = ArchClockMode(arch)]
    /\ w' = [Advance(arch, w) EXCEPT !.wrote = "clock_mode"]
    /\ UNCHANGED <<arch, updates, notSeq, notWriter>>

\* clk.mask = u64::MAX
StampMask ==
    /\ w.pc = "stamp_mask"
    /\ data' = [data EXCEPT !.clocks[w.clk].mask = U64_MAX]
    /\ w' = [Advance(arch, w) EXCEPT !.wrote = "mask"]
    /\ UNCHANGED <<arch, updates, notSeq, notWriter>>

\* update_vdso_clock is entered: its reads and its branch.  The converter
\* call of the recalibration branch panics when it divides by zero.
ClockEnter ==
    /\ w.pc = "load"
    /\ LET a == ArgsFor(w.clk, w.args)
           l == ClockLoad(data.clocks[w.clk], a.cycle_now, a.wall_ns,
                          a.mono_ns, a.mult_shift)
       IN  w' = [w EXCEPT !.l = l, !.pre = data.clocks[w.clk], !.wrote = "",
                          !.pc = IF l.panics THEN "panicked"
                                 ELSE NextPc("load", l),
                          !.fault = IF l.panics THEN "division by zero"
                                    ELSE ""]
    /\ UNCHANGED <<arch, data, updates, notSeq, notWriter>>

\* One field write of update_vdso_clock; after the last one the call returns.
\* A shift that overflows panics before the field is written when the crate
\* is built with overflow checks, and wraps when it is built without.
WriteField(pc) ==
    /\ w.pc = pc
    /\ \E checks \in IF WriteOverflows(pc, data.clocks[w.clk], w.l)
                     THEN BOOLEAN ELSE {FALSE} :
          IF checks
          THEN /\ w' = [w EXCEPT !.pc = "panicked", !.wrote = "",
                                 !.fault = "shift overflow"]
               /\ data' = data
          ELSE /\ data' = [data EXCEPT !.clocks[w.clk] = ClockWrite(pc, @, w.l)]
               /\ w' = IF NextPc(pc, w.l) = "ret"
                       THEN [Advance(arch, w) EXCEPT !.wrote = pc]
                       ELSE [w EXCEPT !.pc = NextPc(pc, w.l), !.wrote = pc]
    /\ UNCHANGED <<arch, updates, notSeq, notWriter>>

\* clk.write_seqcount_end()
SeqEnd ==
    /\ w.pc = "end"
    /\ data' = [data EXCEPT !.clocks[w.clk] = write_seqcount_end(@)]
    /\ w' = [Advance(arch, w) EXCEPT !.wrote = ""]
    /\ committed' = [committed EXCEPT
          ![w.clk] = @ \cup {write_seqcount_end(data.clocks[w.clk])}]
    /\ calls' = [calls EXCEPT ![w.clk] = Succ(@)]
    /\ UNCHANGED <<arch, updates, notWriter>>

\* A caller of the two public methods alone, in any order, on either record.
CallBegin ==
    /\ arch = "direct"
    /\ w.pc = "idle"
    /\ updates < MaxCalls
    /\ \E i \in 1..2 :
          /\ data' = [data EXCEPT !.clocks[i] = write_seqcount_begin(@)]
          /\ calls' = [calls EXCEPT ![i] = Succ(@)]
    /\ updates' = updates + 1
    /\ UNCHANGED <<arch, w, committed, notWriter>>

CallEnd ==
    /\ arch = "direct"
    /\ w.pc = "idle"
    /\ updates < MaxCalls
    /\ \E i \in 1..2 :
          /\ data' = [data EXCEPT !.clocks[i] = write_seqcount_end(@)]
          /\ calls' = [calls EXCEPT ![i] = Succ(@)]
    /\ updates' = updates + 1
    /\ UNCHANGED <<arch, w, committed, notWriter>>

\* The field writes of update_vdso_clock.
RecordWrites == \E pc \in UpdatePcs : WriteField(pc)

\* The steps of begin, update_vdso_clock, end on one record.
ClockStep == SeqBegin \/ ClockEnter \/ RecordWrites \/ SeqEnd

\* The steps of a routine once it has started.
WriterStep == ClockStep \/ StampMode \/ StampMask

(***************************************************************************)
(* The caller of prepare_vdso_pages: it prepares a region of the kernel     *)
(* image, puts the allocation it got in a guard, and leaves the scope of    *)
(* the guard (drop), having disarmed it or not.                             *)
(***************************************************************************)
NoResult == [kind |-> "none"]

\* The caller before its first call.  disarmed and before are history:
\* whether disarm() was called on the guard, and the heap as the last call
\* of prepare_vdso_pages found it.
PrepIdle ==
    [pc |-> "idle", n |-> 0, kstart |-> U64(0), kend |-> U64(0),
     res |-> NoResult, guard |-> VdsoAllocGuard_new(None),
     disarmed |-> FALSE, pick |-> <<>>,
     before |-> NoHeap]

\* prepare_vdso_pages(kstart, kend) is called and returns, or panics.
Prepare ==
    /\ prep.pc \in {"idle", "failed", "dropped", "picked"}
    /\ prep.n < MaxPrepares
    /\ \E reg \in Regions, checks \in BOOLEAN, grant \in BOOLEAN :
          LET r == prepare_vdso_pages(reg.kstart, reg.kend, checks, heap, grant)
          IN  /\ prep' = [PrepIdle EXCEPT
                            !.pc = CASE r.kind = "ok"  -> "prepared"
                                     [] r.kind = "err" -> "failed"
                                     [] OTHER          -> "panicked",
                            !.n = prep.n + 1,
                            !.kstart = reg.kstart,
                            !.kend = reg.kend,
                            !.res = [r EXCEPT !.heap = NoHeap],
                            !.before = heap]
              /\ heap' = r.heap
    /\ UNCHANGED <<arch, data, w, updates, notSeq, conv, readers>>

\* calculate_vdso_aslr_addr(vdso_kstart, vdso_kend, vdso_page_offset) with
\* the offset prepare_vdso_pages returned.
PickAddress ==
    /\ prep.pc = "prepared"
    /\ \E next_u64 \in Draws :
          prep' = [prep EXCEPT
                     !.pc = "picked",
                     !.pick = calculate_vdso_aslr_addr(next_u64, prep.res.off)]
    /\ UNCHANGED <<arch, data, w, updates, notSeq, conv, readers, heap>>

\* let guard = VdsoAllocGuard::new(alloc)
GuardNew ==
    /\ prep.pc = "prepared"
    /\ prep' = [prep EXCEPT !.pc = "guarded",
                            !.guard = VdsoAllocGuard_new(prep.res.alloc)]
    /\ UNCHANGED <<arch, data, w, updates, notSeq, conv, readers, heap>>

\* guard.disarm()
GuardDisarm ==
    /\ prep.pc = "guarded"
    /\ prep' = [prep EXCEPT !.guard = disarm(@), !.disarmed = TRUE]
    /\ UNCHANGED <<arch, data, w, updates, notSeq, conv, readers, heap>>

\* The guard goes out of scope: Drop::drop runs, once.
GuardDrop ==
    /\ prep.pc = "guarded"
    /\ \E checks \in BOOLEAN :
          LET d == drop(prep.guard, checks, heap)
          IN  /\ prep' = [prep EXCEPT
                            !.pc = IF d.panics THEN "panicked" ELSE "dropped"]
              /\ heap' = d.heap
    /\ UNCHANGED <<arch, data, w, updates, notSeq, conv, readers>>

(***************************************************************************)
(* Readers.  The crate has no reader: the userspace side of the protocol   *)
(* reads seq, then the fields, then seq again, and keeps what it read when *)
(* the two values of seq are equal and even.  A reader takes one memory     *)
(* read per step, between any two steps of the writer.                     *)
(***************************************************************************)
Readers == {"r1"}

\* The fields a reader reads, in order.
ReaderFields ==
    <<"clock_mode", "cycle_last", "mask", "mult", "shift",
      "b0sec", "b0nsec", "b1sec", "b1nsec", "b7sec", "b7nsec">>

\* The value of a field of a record.
FieldOf(clk, f) ==
    CASE f = "clock_mode" -> clk.clock_mode
      [] f = "cycle_last" -> clk.cycle_last
      [] f = "mask"       -> clk.mask
      [] f = "mult"       -> clk.mult
      [] f = "shift"      -> clk.shift
      [] f = "b0sec"      -> clk.basetime[0].sec
      [] f = "b0nsec"     -> clk.basetime[0].nsec
      [] f = "b1sec"      -> clk.basetime[1].sec
      [] f = "b1nsec"     -> clk.basetime[1].nsec
      [] f = "b7sec"      -> clk.basetime[7].sec
      [] f = "b7nsec"     -> clk.basetime[7].nsec

\* All the fields of a record, as a reader would read them.
FieldsOf(clk) == [i \in 1..Len(ReaderFields) |-> FieldOf(clk, ReaderFields[i])]

\* The place of a stage in the program of a routine.
StageAt(a, stage) == CHOOSE k \in 1..Len(ClockProgram(a)) : ClockProgram(a)[k] = stage

\* Whether the writer is between begin and end of record i: begin has
\* returned, end has not.
InProgress(i) ==
    /\ w.clk = i
    /\ w.pc # "idle"
    /\ w.ip > StageAt(arch, "begin")
    /\ w.ip <= StageAt(arch, "end")

\* A reader before its first read.
ReaderStart ==
    [pc |-> 0, clk |-> 1, s1 |-> U32(0), s2 |-> U32(0),
     snap |-> FieldsOf(VdsoClock_default)]

\* The first read of seq, of either record.
ReadSeqFirst(r) ==
    /\ readers[r].pc = 0
    /\ \E i \in 1..NumClocks(arch) :
          readers' = [readers EXCEPT ![r] =
              [ReaderStart EXCEPT !.pc = 1, !.clk = i,
                                  !.s1 = data.clocks[i].seq]]
    /\ UNCHANGED <<arch, data, w, updates, notSeq, conv, prep, heap>>

\* The read of the next field.
ReadField(r) ==
    /\ readers[r].pc \in 1..Len(ReaderFields)
    /\ readers' = [readers EXCEPT
          ![r].snap[readers[r].pc] =
              FieldOf(data.clocks[readers[r].clk], ReaderFields[readers[r].pc]),
          ![r].pc = @ + 1]
    /\ UNCHANGED <<arch, data, w, updates, notSeq, conv, prep, heap>>

\* The second read of seq.
ReadSeqAgain(r) ==
    /\ readers[r].pc = Len(ReaderFields) + 1
    /\ readers' = [readers EXCEPT
          ![r].s2 = data.clocks[readers[r].clk].seq,
          ![r].pc = Len(ReaderFields) + 2]
    /\ UNCHANGED <<arch, data, w, updates, notSeq, conv, prep, heap>>

\* The reader is done with what it read and starts over.
ReadAgain(r) ==
    /\ readers[r].pc = Len(ReaderFields) + 2
    /\ readers' = [readers EXCEPT ![r] = ReaderStart]
    /\ UNCHANGED <<arch, data, w, updates, notSeq, conv, prep, heap>>

\* A reader that has read seq twice and accepts what it read.
Accepts(r) ==
    /\ readers[r].pc = Len(ReaderFields) + 2
    /\ readers[r].s1 = readers[r].s2
    /\ IsEven(readers[r].s1)

ReaderStep ==
    \E r \in Readers :
        ReadSeqFirst(r) \/ ReadField(r) \/ ReadSeqAgain(r) \/ ReadAgain(r)

(***************************************************************************)
(* A caller of the frequency converter.                                    *)
(***************************************************************************)
\* The arguments a caller passes: frequencies from 0 to 2^63, the maxsec of
\* the page update (10), of the recalibration (1), and larger ones.
ConvFroms ==
    {U64(0), U64(1), U64(3), U64(24000000), NANOS_PER_SEC,
     wrapping_sub(<<0, 0, 1, 0>>, U64(48000000)), <<0, 0, 0, 32768>>}
ConvTos ==
    {U64(1), NANOS_PER_SEC, wrapping_mul(U64(3), NANOS_PER_SEC),
     <<0, 0, 1, 0>>, <<0, 0, 0, 32768>>}
ConvMaxsecs == {U32(1), U32(4), U32(10), U32(600)}

ConvIdle ==
    [pc |-> "idle", from |-> U64(0), to |-> U64(0), maxsec |-> U32(0),
     res |-> Sentinel]

\* A call of clocks_calc_mult_shift(from, to, maxsec).
CalcCall ==
    /\ conv.pc = "idle"
    /\ \E from \in ConvFroms, to \in ConvTos, maxsec \in ConvMaxsecs :
           conv' = [conv EXCEPT !.pc = "called", !.from = from, !.to = to,
                                !.maxsec = maxsec]
    /\ UNCHANGED <<arch, data, w, updates, notSeq, readers, prep, heap>>

\* The call returns its pair, or panics at the division by a zero from.
CalcReturn ==
    /\ conv.pc = "called"
    /\ conv' = IF CalcPanics(conv.from)
               THEN [conv EXCEPT !.pc = "panicked"]
               ELSE [conv EXCEPT
                        !.pc = "returned",
                        !.res = clocks_calc_mult_shift(conv.from, conv.to,
                                                       conv.maxsec)]
    /\ UNCHANGED <<arch, data, w, updates, notSeq, readers, prep, heap>>

\* The records of a direct caller: VdsoClock::new(), VdsoClock::default(),
\* a record whose mask the caller set for a 32-bit counter, and a record of
\* new() whose clock_mode the caller set to ClockMode::None.
DirectRecords ==
    {VdsoClock_new, VdsoClock_default,
     [VdsoClock_new EXCEPT !.mask = Resize(U32_MAX, 4)],
     [VdsoClock_new EXCEPT !.clock_mode = ClockMode_None]}

\* The static VDSO_DATA before init_vdso_data, for each architecture.
InitPage ==
    /\ arch \in PageArchs
    /\ data = VdsoData_new
    /\ w = WriterIdle
    /\ updates = 0
    /\ committed = [i \in 1..2 |-> {data.clocks[i]}]
    /\ calls = [i \in 1..2 |-> U64(0)]
    /\ prep = PrepIdle
    /\ heap = NoHeap
    /\ conv = ConvIdle

InitDirect ==
    /\ arch = "direct"
    /\ data \in {[VdsoData_new EXCEPT !.clocks[1] = r] : r \in DirectRecords}
    /\ w = WriterIdle
    /\ updates = 0
    /\ committed = [i \in 1..2 |-> {data.clocks[i]}]
    /\ calls = [i \in 1..2 |-> U64(0)]
    /\ prep = PrepIdle
    /\ heap = NoHeap
    /\ conv = ConvIdle

\* The page, its writer and its readers.
Init ==
    /\ InitPage
    /\ readers = [r \in Readers |-> ReaderStart]

Next == UpdateSample \/ WriterStep \/ ReaderStep

Spec == Init /\ [][Next]_vars

\* The page and its writer alone.
InitWriterPage ==
    /\ InitPage
    /\ readers = [r \in Readers |-> ReaderStart]

NextPage == UpdateSample \/ WriterStep

SpecPage == InitWriterPage /\ [][NextPage]_vars

\* One record and its direct caller.
InitClk ==
    /\ InitDirect
    /\ readers = [r \in Readers |-> ReaderStart]

NextClk == DirectCall \/ ClockStep

SpecClk == InitClk /\ [][NextClk]_vars

\* The writers alone, each running to the end of what it started.
InitWriter ==
    /\ InitPage \/ InitDirect
    /\ readers = [r \in Readers |-> ReaderStart]

NextWriter == UpdateSample \/ DirectCall \/ WriterStep

\* A writer is one thread that nothing stops: the step it is at is taken.
\* The last conjunct is WF_vars(ClockEnter) written out, the step being
\* enabled exactly when w.pc = "load".
FairSpec ==
    /\ InitWriter
    /\ [][NextWriter]_vars
    /\ WF_vars(SeqBegin \/ StampMode \/ StampMask \/ RecordWrites \/ SeqEnd)
    /\ ([]<>(w.pc # "load") \/ []<><<ClockEnter>>_vars)

\* The calls a record has been through when the model starts: none, or
\* nearly 2^32, or nearly 2^33.
StartCalls ==
    {U64(0),
     <<Limb - 3, Limb - 1, 0, 0>>, <<Limb - 2, Limb - 1, 0, 0>>,
     <<Limb - 4, Limb - 1, 1, 0>>}

\* Two records, each VdsoClock::new() after some begin/end calls, and a
\* caller of begin and end in any order.
InitSeq ==
    /\ arch = "direct"
    /\ calls \in [1..2 -> StartCalls]
    /\ data = [VdsoData_new EXCEPT !.clocks =
                 [i \in 1..2 |-> [VdsoClock_new EXCEPT !.seq = Resize(calls[i], 2)]]]
    /\ w = WriterIdle
    /\ updates = 0
    /\ committed = [i \in 1..2 |-> {data.clocks[i]}]
    /\ readers = [r \in Readers |-> ReaderStart]
    /\ prep = PrepIdle
    /\ heap = NoHeap
    /\ conv = ConvIdle

NextSeq == CallBegin \/ CallEnd

SpecSeq == InitSeq /\ [][NextSeq]_vars

\* The caller of prepare_vdso_pages and the heap, the page untouched.
InitPrep ==
    /\ arch = "direct"
    /\ data = VdsoData_new
    /\ w = WriterIdle
    /\ updates = 0
    /\ committed = [i \in 1..2 |-> {data.clocks[i]}]
    /\ calls = [i \in 1..2 |-> U64(0)]
    /\ readers = [r \in Readers |-> ReaderStart]
    /\ prep = PrepIdle
    /\ heap = NoHeap
    /\ conv = ConvIdle

NextPrep == Prepare \/ GuardNew \/ GuardDisarm \/ GuardDrop

SpecPrep == InitPrep /\ [][NextPrep]_vars

\* The caller that prepares a region and picks the address to map it at.
NextAslr == Prepare \/ PickAddress

SpecAslr == InitPrep /\ [][NextAslr]_vars

\* The page initialised, then initialised again or updated.
NextInit == UpdateSample \/ InitAgain \/ WriterStep

SpecInit == InitWriterPage /\ [][NextInit]_vars

\* A caller of the frequency converter alone.
NextCalc == CalcCall \/ CalcReturn

SpecCalc == InitPrep /\ [][NextCalc]_vars

(***************************************************************************)
(* The seqlock.                                                            *)
(***************************************************************************)
\* C1: what a reader keeps, having read seq even and unchanged around its
\* reads of the fields, is the fields of one record as a completed write
\* section left it (or as the page was created), the one with that seq.
NoTornReads ==
    \A r \in Readers :
        Accepts(r) =>
            \E c \in committed[readers[r].clk] :
                /\ c.seq = readers[r].s1
                /\ readers[r].snap = FieldsOf(c)

\* A reader keeps what it read of a record that an update has written, and
\* the writer has gone on to a later write section since.
NoTornReads_Witness ==
    \E r \in Readers :
        /\ Accepts(r)
        /\ ~IsZero(readers[r].s1)
        /\ data.clocks[readers[r].clk].seq # readers[r].s1

\* The steps that write a field other than seq.
FieldWritePcs == {"stamp_mode", "stamp_mask"} \cup UpdatePcs

\* C2: in a page update, a field other than seq is written only while the
\* seq of its record is odd (before the write and after it), and the seq of
\* a record is even exactly when no write section of it is in progress.
WritesInsideSection ==
    /\ w.pc \in FieldWritePcs => IsOdd(data.clocks[w.clk].seq)
    /\ w.wrote # "" => IsOdd(data.clocks[w.clk].seq)
    /\ \A i \in 1..NumClocks(arch) :
          IsEven(data.clocks[i].seq) <=> ~InProgress(i)

\* The routine of x86_64 or aarch64 has stamped the mask of the second
\* record, in its second call.
WritesInsideSection_Witness ==
    /\ arch \in {"x86_64", "aarch64"}
    /\ w.wrote = "mask"
    /\ w.clk = 2
    /\ updates = 2
    /\ IsOdd(data.clocks[2].seq)

\* C3: a new record has seq 0; the seq of a record is the number of begin
\* and end calls on it modulo 2^32, so every call adds one and flips the
\* parity, across the wraparound too.
SeqParity ==
    /\ VdsoClock_new.seq = <<0, 0>>
    /\ \A i \in 1..2 :
          /\ data.clocks[i].seq = <<calls[i][1], calls[i][2]>>
          /\ IsEven(data.clocks[i].seq) <=> calls[i][1] % 2 = 0

\* A record has gone around: more than 2^32 calls, and seq counts from 0
\* again.
SeqParity_Witness ==
    /\ updates >= 3
    /\ calls[1] = <<1, 0, 1, 0>>
    /\ data.clocks[1].seq = <<1, 0>>

RecordsEqual ==
    /\ w.pc \in UpdatePcs =>
          /\ w.l.cycle_now = w.args.cycle_now
          /\ w.l.wall_ns = w.args.wall_ns
          /\ w.l.mono_ns = w.args.mono_ns
          /\ w.l.branch \in {"first", "resync"} =>
                <<w.l.mult, w.l.shift>> = w.args.mult_shift
    /\ w.pc = "idle" => data.clocks[1] = data.clocks[2]

\* Two calls have completed and both records carry the second samples.
RecordsEqual_Witness ==
    /\ w.pc = "idle"
    /\ updates = 2
    /\ data.clocks[2].seq = <<4, 0>>
    /\ data.clocks[2].cycle_last = SampleSeq[2].cycle_now

\* Whether sec is ns / NANOS_PER_SEC: sec * 10^9 <= ns < (sec + 1) * 10^9.
IsSecondsOf(sec, ns) ==
    /\ Le(wrapping_mul(sec, NANOS_PER_SEC), ns)
    /\ Lt(ns, wrapping_mul(Succ(sec), NANOS_PER_SEC))

\* Whether the call of update_vdso_clock in progress has returned and left
\* cycle_last = tick_now and the seconds of slot 1 = mono_ns / 10^9.
FirstUpdateDone ==
    /\ data.clocks[w.clk].cycle_last = w.args.cycle_now
    /\ IsSecondsOf(data.clocks[w.clk].basetime[1].sec, w.args.mono_ns)

\* C6 as stated: every record with cycle_last = 0 has, after one update,
\* cycle_last = tick_now and the seconds of slot 1 = mono_ns / 10^9.
FirstUpdateAnyMode ==
    w.pc = "end" /\ IsZero(w.pre.cycle_last) => FirstUpdateDone

\* C6, amended: so has every record with cycle_last = 0 in a counter mode
\* (clock_mode other than None).
FirstUpdate ==
    w.pc = "end" /\ IsZero(w.pre.cycle_last)
                 /\ w.pre.clock_mode # ClockMode_None
        => FirstUpdateDone

\* The first update of a record in a counter mode has returned.
FirstUpdate_Witness ==
    /\ w.pc = "end"
    /\ IsZero(w.pre.cycle_last)
    /\ w.pre.clock_mode # ClockMode_None
    /\ w.l.branch = "first"
    /\ ~IsZero(data.clocks[w.clk].cycle_last)

(***************************************************************************)
(* Page preparation and the ownership guard.  The regions prepared are     *)
(* regions of memory: vdso_kstart <= vdso_kend, at most isize::MAX bytes.  *)
(***************************************************************************)
\* The length, the offset in its page and their sum of the region of the
\* last call, and the allocation that call made.
PrepLen == wrapping_sub(prep.kend, prep.kstart)
PrepOff == U64(prep.kstart[1] % 4096)
PrepTotal == wrapping_add(PrepLen, PrepOff)
PrepAlloc == heap.allocs[AllocAt(heap, prep.res.alloc[1])]

\* Whether size is x rounded up to a multiple of 4096.
IsRoundUp(size, x) ==
    /\ size[1] % 4096 = 0
    /\ Le(x, size)
    /\ Lt(wrapping_sub(size, x), U64(4096))

\* C7: the guard's drop frees the allocation prepare_vdso_pages returned
\* exactly once when disarm() was not called and frees nothing when it was;
\* nothing is freed before the drop, and no allocation is ever freed twice.
GuardFreesOnce ==
    /\ ~heap.bad
    /\ \A k \in DOMAIN heap.allocs :
          /\ heap.allocs[k].frees <= 1
          /\ heap.allocs[k].live <=> heap.allocs[k].frees = 0
    /\ prep.pc \in {"prepared", "guarded"} /\ prep.res.alloc # None =>
          PrepAlloc.frees = 0
    /\ prep.pc = "dropped" /\ prep.res.alloc # None =>
          PrepAlloc.frees = IF prep.disarmed THEN 0 ELSE 1

\* An armed guard has freed the allocation of the second call, and the
\* allocation of the first call, whose guard was disarmed, is outstanding.
GuardFreesOnce_Witness ==
    /\ prep.pc = "dropped"
    /\ prep.res.alloc # None
    /\ ~prep.disarmed
    /\ Len(heap.allocs) = 2
    /\ heap.allocs[1].live
    /\ heap.allocs[2].frees = 1

\* Whether the rounded size of the last call's region exceeds what a layout
\* may hold, and whether it exceeds what was free in the heap.
PrepTooLarge == Lt(wrapping_sub(isize_MAX, U64(4095)), PrepTotal)
PrepNoRoom ==
    Lt(U64((HeapPages - Cardinality(UsedPages(prep.before))) * 4096), PrepTotal)

MisalignedPreparation ==
    prep.pc = "prepared" /\ ~IsZero(PrepOff) =>
        LET r    == prep.res
            k    == Len(heap.allocs)
            a    == heap.allocs[k]
            addr == wrapping_add(HeapBase, U64(a.page * 4096))
            off  == ToNat(PrepOff)
            len  == ToNat(PrepLen)
        IN  /\ r.off = PrepOff
            /\ IsRoundUp(r.size, PrepTotal)
            /\ Len(prep.before.allocs) = k - 1
            /\ a.live
            /\ addr[1] % 4096 = 0
            /\ U64(Len(a.bytes)) = r.size
            /\ SubSeq(a.bytes, off + 1, off + len) = ReadBytes(prep.kstart, len)
            /\ \A i \in 1..Len(a.bytes) :
                  i <= off \/ i > off + len => a.bytes[i] = 0
            /\ r.alloc[1] = addr
            /\ wrapping_mul(r.alloc[2], U64(4096)) = r.size
            /\ r.paddr = virt_to_phys(addr)
            /\ r.bytes = [ptr |-> wrapping_add(addr, PrepOff), len |-> PrepLen]

\* A region of 5000 bytes, 100 bytes into its page, is prepared in 8192
\* bytes.
MisalignedPreparation_Witness ==
    /\ prep.pc = "prepared"
    /\ PrepOff = U64(100)
    /\ PrepLen = U64(5000)
    /\ prep.res.size = U64(8192)
    /\ heap.allocs[Len(heap.allocs)].bytes[101] # 0
    /\ heap.allocs[Len(heap.allocs)].bytes[5100] # 0
    /\ heap.allocs[Len(heap.allocs)].bytes[5101] = 0

\* C10: for a page-aligned region prepare_vdso_pages returns the region
\* itself (its physical address and its bytes), the size len rounded up to
\* 4096 and the offset 0, and neither makes nor returns an allocation.
AlignedPreparation ==
    prep.pc \in {"prepared", "failed", "panicked"} /\ IsZero(PrepOff) =>
        /\ prep.pc = "prepared"
        /\ prep.res.paddr = virt_to_phys(prep.kstart)
        /\ prep.res.bytes = [ptr |-> prep.kstart, len |-> PrepLen]
        /\ IsRoundUp(prep.res.size, PrepLen)
        /\ prep.res.off = U64(0)
        /\ prep.res.alloc = None
        /\ heap = prep.before

\* An aligned region of 10000 bytes is prepared in 12288 bytes.
AlignedPreparation_Witness ==
    /\ prep.pc = "prepared"
    /\ IsZero(PrepOff)
    /\ PrepLen = U64(10000)
    /\ prep.res.size = U64(12288)
    /\ prep.res.alloc = None

(***************************************************************************)
(* The address the image is mapped at.                                     *)
(***************************************************************************)
\* C11: base_addr is a multiple of 4096 in [BASE, BASE + 256 * 4096) with
\* BASE = 0x7f00_0000, and vdso_addr is base_addr + the offset, so it lies
\* in [BASE + offset, BASE + 256 * 4096 + offset).
AslrBound ==
    prep.pc = "picked" =>
        LET base == ToNat(prep.pick[1])
            addr == ToNat(prep.pick[2])
            off  == ToNat(prep.res.off)
        IN  /\ FitsNat(prep.pick[1]) /\ FitsNat(prep.pick[2])
            /\ base % 4096 = 0
            /\ 2130706432 <= base
            /\ base < 2130706432 + 256 * 4096
            /\ addr = base + off
            /\ 2130706432 + off <= addr
            /\ addr < 2130706432 + 256 * 4096 + off

\* The last page of the window is picked for a region 100 bytes into its
\* page.
AslrBound_Witness ==
    /\ prep.pc = "picked"
    /\ ToNat(prep.pick[1]) = 2130706432 + 255 * 4096
    /\ ToNat(prep.pick[2]) = 2130706432 + 255 * 4096 + 100

\* C12: with the offset prepare_vdso_pages returned for the region,
\* vdso_addr mod 4096 = that offset = vdso_kstart mod 4096.
AddressCongruence ==
    prep.pc = "picked" =>
        /\ prep.pick[2][1] % 4096 = ToNat(prep.res.off)
        /\ prep.pick[2][1] % 4096 = prep.kstart[1] % 4096

\* An address is picked for a region that starts at the last byte of its
\* page.
AddressCongruence_Witness ==
    /\ prep.pc = "picked"
    /\ prep.kstart[1] % 4096 = 4095
    /\ prep.pick[2][1] % 4096 = 4095
    /\ prep.pick[1] # U64(2130706432)

(***************************************************************************)
(* The recalibration branch of update_vdso_clock.                          *)
(***************************************************************************)
\* Whether the call of update_vdso_clock in progress, or just failed, found
\* a record in a counter mode with cycle_last # 0 and was passed the
\* sentinel, and whether it has returned.
SentinelCall ==
    /\ w.pc \in {"end", "panicked"}
    /\ w.pre.clock_mode # ClockMode_None
    /\ ~IsZero(w.pre.cycle_last)
    /\ IsSentinel(w.args.mult_shift)
Returned == w.pc = "end"

\* Whether the call in progress has adopted the converter's result for
\* (delta_ticks, delta_ns, 1) and re-anchored the record.
Recalibrated(delta_ticks, delta_ns) ==
    LET ms  == clocks_calc_mult_shift(delta_ticks, delta_ns, U32(1))
        clk == data.clocks[w.clk]
        qr  == DivMod(w.args.mono_ns, NANOS_PER_SEC)
    IN  /\ clk.mult = ms[1]
        /\ clk.shift = ms[2]
        /\ clk.cycle_last = w.args.cycle_now
        /\ clk.basetime[1].sec = qr[1]
        /\ clk.basetime[1].nsec = Shl(qr[2], ms[2])

\* C13: with mask = 0xFFFF_FFFF and tick_now < cycle_last the call computes
\* delta_ticks as the distance from cycle_last to tick_now modulo 2^32,
\* without failing, and recalibrates when that and delta_ns are nonzero.
Wraparound ==
    /\ SentinelCall
    /\ w.pre.mask = Resize(U32_MAX, 4)
    /\ Lt(w.args.cycle_now, w.pre.cycle_last)
    => LET d32 == Resize(wrapping_sub(Resize(w.args.cycle_now, 2),
                                      Resize(w.pre.cycle_last, 2)), 4)
       IN  /\ Returned
           /\ w.l.delta_cycles = d32
           /\ ~IsZero(d32) /\ ~IsZero(w.l.delta_ns)
                 => Recalibrated(d32, w.l.delta_ns)

\* A record with a 32-bit mask has been recalibrated over a counter that
\* wrapped.
Wraparound_Witness ==
    /\ SentinelCall
    /\ Returned
    /\ w.pre.mask = Resize(U32_MAX, 4)
    /\ Lt(w.args.cycle_now, w.pre.cycle_last)
    /\ w.l.branch = "recal"
    /\ data.clocks[w.clk].cycle_last = w.args.cycle_now
    /\ data.clocks[w.clk].shift # w.pre.shift

\* The deltas of the call in progress as the specification defines them:
\* delta_ticks = (tick_now - cycle_last) & mask, and delta_ns = max(0,
\* mono_ns - (sec * 10^9 + (nsec >> shift))) of the stored slot 1.
MaskedDeltaTicks ==
    BitAnd(wrapping_sub(w.args.cycle_now, w.pre.cycle_last), w.pre.mask)
DenormalizedDeltaNs ==
    saturating_sub(w.args.mono_ns,
        wrapping_add(wrapping_mul(w.pre.basetime[1].sec, NANOS_PER_SEC),
                     Shr(w.pre.basetime[1].nsec, w.pre.shift)))

\* C19: in counter mode with cycle_last # 0 and the sentinel, when
\* delta_ticks and delta_ns = max(0, mono_ns - (sec * 10^9 + (nsec >>
\* shift))) are both nonzero the record adopts clocks_calc_mult_shift(
\* delta_ticks, delta_ns, 1), slot 1 = (mono_ns / 10^9, (mono_ns % 10^9) <<
\* shift) and cycle_last = tick_now.
EmpiricalRecalibration ==
    SentinelCall =>
        /\ Returned
        /\ ~IsZero(MaskedDeltaTicks) /\ ~IsZero(DenormalizedDeltaNs)
              => Recalibrated(MaskedDeltaTicks, DenormalizedDeltaNs)

\* C20: in counter mode with cycle_last # 0 and the sentinel, when
\* delta_ticks is 0 or delta_ns is 0 (as the call computes it, or as the
\* specification defines it) the call returns and leaves mult, shift,
\* cycle_last and slot 1 as they were.
SkipChangesNothing ==
    /\ SentinelCall
    /\ \/ IsZero(MaskedDeltaTicks)
       \/ IsZero(w.l.delta_ns)
       \/ IsZero(DenormalizedDeltaNs)
    => /\ Returned
       /\ w.l.branch = "skip"
       /\ data.clocks[w.clk].mult = w.pre.mult
       /\ data.clocks[w.clk].shift = w.pre.shift
       /\ data.clocks[w.clk].cycle_last = w.pre.cycle_last
       /\ data.clocks[w.clk].basetime[1] = w.pre.basetime[1]

\* A call has returned that found the counter where it was, later in time,
\* and wrote the wall time only.
SkipChangesNothing_Witness ==
    /\ SentinelCall
    /\ Returned
    /\ IsZero(MaskedDeltaTicks)
    /\ ~IsZero(w.l.delta_ns)
    /\ data.clocks[w.clk].basetime[0] # w.pre.basetime[0]
    /\ data.clocks[w.clk].basetime[1] = w.pre.basetime[1]

(***************************************************************************)
(* The frequency converter.                                                *)
(***************************************************************************)
\* C14: a call of clocks_calc_mult_shift with from = 0, from a page update
\* whose nanos_to_ticks(NANOS_PER_SEC) is 0 in particular, is rejected by a
\* check and never reaches the division by from.
ZeroFrequencyChecked == w.fault # "division by zero"


\* The cycle counts the accuracy is examined at, from one tick up to
\* from * max_seconds = 240_000_000.
AccuracyCycles ==
    {1, 2, 23, 24, 25, 1000, 1610612, 1610613, 1610614, 24000000, 67108865,
     100000001, 239999999, 240000000}

\* The converter has returned the pair for from = 24_000_000,
\* to = 1_000_000_000, max_seconds = 10.
AccuracyCall ==
    /\ conv.pc = "returned"
    /\ conv.from = U64(24000000)
    /\ conv.to = NANOS_PER_SEC
    /\ conv.maxsec = U32(10)

\* cycles * mult does not exceed 64 bits.
ProductFits(cycles) == ~MulOverflows(U64(cycles), Resize(conv.res[1], 4))

\* cycles * to / from >= 2^shift, as cycles * to >= from << shift.
AtLeastOneUnit(cycles) ==
    Le(Shl(Resize(conv.from, 8), conv.res[2]),
       wrapping_mul(Resize(U64(cycles), 8), Resize(conv.to, 8)))

\* |((cycles * mult) >> shift) - cycles*to/from| / (cycles*to/from)
\* < 2^-shift over the rationals, as
\* |ns * from - cycles * to| << shift < cycles * to.
RelativeErrorBelow(cycles) ==
    LET ns   == Shr(wrapping_mul(U64(cycles), Resize(conv.res[1], 4)),
                    conv.res[2])
        nf   == wrapping_mul(Resize(ns, 8), Resize(conv.from, 8))
        ct   == wrapping_mul(Resize(U64(cycles), 8), Resize(conv.to, 8))
        diff == IF Lt(nf, ct) THEN wrapping_sub(ct, nf)
                ELSE wrapping_sub(nf, ct)
    IN  Lt(Shl(diff, conv.res[2]), ct)

\* C15: for from = 24_000_000, to = 1_000_000_000, max_seconds = 10 the
\* returned pair keeps the relative error of (cycles * mult) >> shift against
\* cycles*to/from below 2^-shift for every cycles from 1 to from * max_seconds,
\* and cycles * mult within 64 bits.
AccurateEveryCycle ==
    AccuracyCall =>
        \A cycles \in AccuracyCycles :
            ProductFits(cycles) /\ RelativeErrorBelow(cycles)

\* C15, amended: the bound on the relative error holds for every cycles with
\* cycles*to/from >= 2^shift, and cycles * mult stays within 64 bits for
\* every cycles from 1 to from * max_seconds.
AccurateFromOneUnit ==
    AccuracyCall =>
        \A cycles \in AccuracyCycles :
            /\ ProductFits(cycles)
            /\ AtLeastOneUnit(cycles) => RelativeErrorBelow(cycles)

AccurateFromOneUnit_Witness ==
    /\ AccuracyCall
    /\ conv.res[2] = 26
    /\ \E cycles \in AccuracyCycles : AtLeastOneUnit(cycles)
    /\ \E cycles \in AccuracyCycles : ~AtLeastOneUnit(cycles)

\* The value of sftacc: 32 less the bit length of (max_seconds * from) >> 32,
\* the product taken in 64 bits.
BitLengthIs(x, n) ==
    /\ IsZero(Shr(x, n))
    /\ n = 0 \/ ~IsZero(Shr(x, n - 1))
BitBudget ==
    LET x == Shr(wrapping_mul(Resize(conv.maxsec, 4), conv.from), 32)
    IN  CHOOSE k \in 0..32 : BitLengthIs(x, 32 - k)

\* round((to << shift) / from): the quotient, one more when twice the
\* remainder reaches from.
RoundedCandidate(shift) ==
    LET qr == DivMod(Shl(Resize(conv.to, 8), shift), Resize(conv.from, 8))
    IN  IF Le(Resize(conv.from, 8), Shl(qr[2], 1))
        THEN wrapping_add(qr[1], FromNat(1, 8))
        ELSE qr[1]

\* min(candidate, 2^32 - 1), as a u32.
MinWithU32Max(candidate) ==
    IF Le(candidate, Resize(U32_MAX, 8)) THEN Resize(candidate, 2)
    ELSE U32_MAX

\* The shifts an acceptance test passes: sftacc <= 0, or the candidate fits
\* within bits bits.
ShiftsWithin(bits) ==
    {shift \in 1..32 :
        BitBudget <= 0 \/ IsZero(Shr(RoundedCandidate(shift), bits))}

\* The converter has returned the first shift of the set, from 32 down, with
\* its clamped candidate, and has returned no shift outside the set.
ReturnsFirstOf(shifts) ==
    /\ shifts # {} =>
           LET first == CHOOSE s \in shifts : \A t \in shifts : t <= s
           IN  conv.res = <<MinWithU32Max(RoundedCandidate(first)), first>>
    /\ conv.res[2] \in 1..32 => conv.res[2] \in shifts

\* C17: the converter returns the first shift, from 32 down to 1, for which
\* sftacc <= 0 or round((to << shift) / from) fits within 32 - sftacc bits,
\* with mult = min(candidate, 2^32 - 1).
AcceptsWithinRemainingBits ==
    conv.pc = "returned" => ReturnsFirstOf(ShiftsWithin(32 - BitBudget))

\* C17, amended: the converter returns the first shift, from 32 down to 1,
\* for which sftacc <= 0 or round((to << shift) / from) fits within sftacc
\* bits, with mult = min(candidate, 2^32 - 1).
AcceptsWithinBudget ==
    conv.pc = "returned" => ReturnsFirstOf(ShiftsWithin(BitBudget))

AcceptsWithinBudget_Witness ==
    /\ conv.pc = "returned"
    /\ BitBudget \in 1..31
    /\ conv.res[2] \in 1..31
    /\ ~IsZero(Shr(RoundedCandidate(conv.res[2] + 1), BitBudget))

\* C18: for every from # 0 the converter returns either the sentinel
\* (u32::MAX, 0), exactly when no shift in 1..32 passes the acceptance test,
\* or a pair with shift in 1..32 and mult <= u32::MAX; shift 0 comes with no
\* other multiplier.
ResultRange ==
    conv.pc = "returned" =>
        /\ conv.res[2] \in 0..32
        /\ Le(conv.res[1], U32_MAX)
        /\ conv.res[2] = 0 => conv.res[1] = <<65535, 65535>>
        /\ conv.res = <<<<65535, 65535>>, 0>> <=> ShiftsWithin(BitBudget) = {}

ResultRange_Witness ==
    /\ conv.pc = "returned"
    /\ ~IsZero(conv.from)
    /\ conv.res = <<<<65535, 65535>>, 0>>
    /\ ShiftsWithin(BitBudget) = {}

(***************************************************************************)
(* The initialisation of the page.                                         *)
(***************************************************************************)
\* A second init_vdso_data() with unchanged samples has returned.
InitRepeated == w.pc = "idle" /\ w.again

\* C16: a second init with unchanged samples leaves the page in exactly the
\* state it had after the first, the seq of each record included.
InitIdempotent == InitRepeated => data = w.page

(***************************************************************************)
(* The branches of the clock updater.                                      *)
(***************************************************************************)
\* The call of update_vdso_clock in progress has returned, on a record in a
\* counter mode with cycle_last # 0 and with a candidate other than the
\* sentinel.
ResyncCall ==
    /\ w.pc = "end"
    /\ w.pre.clock_mode # ClockMode_None
    /\ ~IsZero(w.pre.cycle_last)
    /\ w.args.mult_shift # <<<<65535, 65535>>, 0>>

\* C21: in counter mode with cycle_last # 0 a call whose candidate is not
\* the sentinel sets (mult, shift) = candidate, slot 1 = (mono_ns / 10^9,
\* (mono_ns % 10^9) << candidate.shift) and cycle_last = tick_now, whatever
\* mult, shift, cycle_last and mask the record had.
Resynchronization ==
    ResyncCall =>
        LET clk == data.clocks[w.clk]
            qr  == DivMod(w.args.mono_ns, NANOS_PER_SEC)
        IN  /\ clk.mult = w.args.mult_shift[1]
            /\ clk.shift = w.args.mult_shift[2]
            /\ clk.cycle_last = w.args.cycle_now
            /\ clk.basetime[1].sec = qr[1]
            /\ clk.basetime[1].nsec = Shl(qr[2], w.args.mult_shift[2])

\* A record with a 32-bit mask that had adopted the sentinel has been
\* resynchronised to another pair, at another counter value.
Resynchronization_Witness ==
    /\ ResyncCall
    /\ w.pre.mask = Resize(U32_MAX, 4)
    /\ w.pre.shift # w.args.mult_shift[2]
    /\ w.pre.mult # w.args.mult_shift[1]
    /\ w.pre.cycle_last # w.args.cycle_now
    /\ data.clocks[w.clk].shift = w.args.mult_shift[2]

\* C22: after every call of update_vdso_clock, whichever branch it took,
\* slot 0 = (wall_ns / 10^9, (wall_ns % 10^9) << shift) with the shift the
\* record has after the branch, and slot 7 equals slot 1.
WallAndBootBases ==
    w.pc = "end" =>
        LET clk == data.clocks[w.clk]
            qr  == DivMod(w.args.wall_ns, NANOS_PER_SEC)
        IN  /\ w.l.branch \in {"none", "first", "resync", "recal", "skip"}
            /\ clk.basetime[0].sec = qr[1]
            /\ clk.basetime[0].nsec = Shl(qr[2], clk.shift)
            /\ clk.basetime[7].sec = clk.basetime[1].sec
            /\ clk.basetime[7].nsec = clk.basetime[1].nsec

\* A call that skipped the recalibration has returned: the record keeps a
\* shift that is not the candidate's, and slot 1 is not the time of the call.
WallAndBootBases_Witness ==
    /\ w.pc = "end"
    /\ w.l.branch = "skip"
    /\ data.clocks[w.clk].shift # w.args.mult_shift[2]
    /\ ~IsZero(data.clocks[w.clk].basetime[7].nsec)
    /\ data.clocks[w.clk].basetime[0].sec # w.pre.basetime[0].sec

\* C23: after a call on a record whose clock_mode is None, mult = 0,
\* cycle_last = 0, slot 1 = (mono_ns / 10^9, mono_ns % 10^9), and the nsec
\* of slots 0, 1 and 7 is a raw nanosecond value below 10^9, whatever the
\* shift of the record.
NoneModeRaw ==
    w.pc = "end" /\ w.pre.clock_mode = ClockMode_None =>
        LET clk == data.clocks[w.clk]
            qm  == DivMod(w.args.mono_ns, NANOS_PER_SEC)
            qw  == DivMod(w.args.wall_ns, NANOS_PER_SEC)
        IN  /\ IsZero(clk.mult)
            /\ IsZero(clk.cycle_last)
            /\ clk.basetime[1] = [sec |-> qm[1], nsec |-> qm[2]]
            /\ clk.basetime[7].nsec = qm[2]
            /\ clk.basetime[0].nsec = qw[2]
            /\ \A b \in {0, 1, 7} : Lt(clk.basetime[b].nsec, NANOS_PER_SEC)

(***************************************************************************)
(* The page as its update routines leave it.                               *)
(***************************************************************************)
\* The counter tag of an architecture: Csr, Tsc or Cntvct.
CounterTag ==
    CASE arch = "riscv64" -> ClockMode_Csr
      [] arch = "x86_64"  -> ClockMode_Tsc
      [] arch = "aarch64" -> ClockMode_Cntvct

\* C24: from the static initial page, after every completed page update on
\* every architecture the clock_mode of each record is the counter tag of the
\* architecture, never None, and its mask is u64::MAX; no call of
\* update_vdso_clock made by a page update takes the None branch.
CounterIdentity ==
    /\ w.pc = "idle" /\ updates >= 1 =>
          \A i \in 1..2 :
              /\ data.clocks[i].clock_mode = CounterTag
              /\ data.clocks[i].clock_mode # ClockMode_None
              /\ data.clocks[i].mask = <<65535, 65535, 65535, 65535>>
    /\ w.pc \in UpdatePcs \cup {"end"} => w.l.branch # "none"

\* Each architecture's routine has completed two updates.
CounterIdentity_Witness ==
    /\ w.pc = "idle"
    /\ updates = 2
    /\ arch = "aarch64"
    /\ data.clocks[2].seq = <<4, 0>>
    /\ data.clocks[2].clock_mode = ClockMode_Cntvct

\* The slots no update writes, and what is outside the write set of the
\* page updates: all as VdsoData::new() made them.
ReservedSlots == (2..6) \cup (8..15)
OutsideWriteSet ==
    /\ \A i \in 1..2 : \A b \in ReservedSlots :
          data.clocks[i].basetime[b] = [sec |-> <<0, 0, 0, 0>>,
                                        nsec |-> <<0, 0, 0, 0>>]
    /\ \A i \in 1..2 : data.clocks[i].unused = <<0, 0>>
    /\ data.tz_minuteswest = 0
    /\ data.tz_dsttime = 0
    /\ data.hrtimer_res = 1

\* C25: over every sequence of page updates slots 2..6 and 8..15 of every
\* record and tz_minuteswest, tz_dsttime, hrtimer_res keep their initial
\* values 0, 0 and 1, and a step that updates one record changes no field of
\* the other.
FrameOfUpdates ==
    /\ []OutsideWriteSet
    /\ [][\A i \in 1..2 : i # w.clk => data'.clocks[i] = data.clocks[i]]_vars

\* Both records of the page have been updated twice.
FrameOfUpdates_Witness ==
    /\ w.pc = "idle"
    /\ updates = 2
    /\ \A i \in 1..2 :
          /\ data.clocks[i].seq = <<4, 0>>
          /\ ~IsZero(data.clocks[i].basetime[7].sec)
          /\ ~IsZero(data.clocks[i].basetime[0].sec)
    /\ OutsideWriteSet

\* C26: the shift of every record is at most 32 in every reachable state,
\* and every nsec a call stores as (ns % 10^9) << shift, in slots 0, 1 and
\* 7, loses no high bits in 64 bits: nsec >> shift is the remainder
\* ns % 10^9, below 10^9.  (Slot 1 is stored so by the first-update,
\* resynchronisation and recalibration branches.)
ShiftedNanosFit ==
    /\ \A i \in 1..2 : data.clocks[i].shift \in 0..32
    /\ w.fault # "shift overflow"
    /\ w.pc = "end" =>
          LET clk == data.clocks[w.clk]
              qw  == DivMod(w.args.wall_ns, NANOS_PER_SEC)
              qm  == DivMod(w.args.mono_ns, NANOS_PER_SEC)
          IN  /\ Shr(clk.basetime[0].nsec, clk.shift) = qw[2]
              /\ Lt(qw[2], NANOS_PER_SEC)
              /\ w.l.branch \in {"first", "resync", "recal"} =>
                    /\ Shr(clk.basetime[1].nsec, clk.shift) = qm[2]
                    /\ Shr(clk.basetime[7].nsec, clk.shift) = qm[2]
                    /\ Lt(qm[2], NANOS_PER_SEC)

\* A call has stored nanoseconds shifted by 26 or more, reaching into the
\* high half of the word.
ShiftedNanosFit_Witness ==
    /\ w.pc = "end"
    /\ w.l.branch \in {"first", "resync", "recal"}
    /\ data.clocks[w.clk].shift >= 26
    /\ ~IsZero(Shr(data.clocks[w.clk].basetime[1].nsec, 32))
    /\ ~IsZero(Shr(data.clocks[w.clk].basetime[0].nsec, 32))

====
